---------------------------- MODULE Spec2Model ----------------------------
(***************************************************************************)
(* A model of gif.py: the field extractors (extract_header,                *)
(* extract_screen_descriptor, extract_global_colour_table,                 *)
(* extract_image_descriptor) as operators over a byte buffer, and          *)
(* extract_image as a state machine: locate the image data, assemble the   *)
(* data sub-blocks into a bit stream, run the LZW decode loop one code per *)
(* step, reshape the decoded colours into rows.                            *)
(*                                                                         *)
(* A byte buffer is a sequence of numbers 0..255.  Python offsets are      *)
(* 0-based; At and Slice take Python offsets.  A Python exception is the   *)
(* name of its class in the field err of a result, "none" when the call    *)
(* returns.  A bit string ("0101") is a sequence of 0 and 1.               *)
(***************************************************************************)
EXTENDS Integers, Sequences, FiniteSets, TLC

VARIABLES
    data,             \* the input buffer (bytes)
    pc,               \* "idle", "assemble", "decode", "reshape", "returned", "raised"
    fn,               \* the function that was called, "none" before the call
    err,              \* the exception that ended the call, "none" otherwise
    ret,              \* the value returned by the call, <<>> before it returns
    start,            \* extract_image: offset of the image data in data
    min_code_size,
    code_size,
    sub_block_start,
    sub_block_length,
    data_stream,      \* the assembled bits
    start_b,          \* cursor in data_stream
    count,
    gc_map,
    cc_index,
    image_data,
    code_table,       \* <<>> while the name is not bound
    first,
    previous_code,    \* -1 while the name is not bound
    current_code,     \* -1 before the first read
    reversed_order    \* the bits of the last read

vars == <<data, pc, fn, err, ret, start, min_code_size, code_size,
          sub_block_start, sub_block_length, data_stream, start_b, count,
          gc_map, cc_index, image_data, code_table, first, previous_code,
          current_code, reversed_order>>

---------------------------------------------------------------------------
(* Python built-ins used by gif.py *)

Min(a, b) == IF a < b THEN a ELSE b

RECURSIVE Pow2(_)
Pow2(n) == IF n <= 0 THEN 1 ELSE 2 * Pow2(n - 1)

\* s[a:b] for 0 <= a: the slice is cut at the end of s, never an error
Slice(s, a, b) ==
    IF a >= Min(b, Len(s)) THEN << >>
    ELSE [i \in 1..(Min(b, Len(s)) - a) |-> s[a + i]]

\* s[i]: the caller tests InRange first (IndexError otherwise)
InRange(s, i) == i >= 0 /\ i < Len(s)
At(s, i) == s[i + 1]

Reverse(s) == [i \in 1..Len(s) |-> s[Len(s) + 1 - i]]

\* int.from_bytes(b, "little"); 0 for the empty slice
RECURSIVE FromLittle(_)
FromLittle(b) == IF b = << >> THEN 0 ELSE b[1] + 256 * FromLittle(Tail(b))

\* bin(n)[2:]: the binary digits of n, most significant first, "0" for 0
RECURSIVE Bin(_)
Bin(n) == IF n < 2 THEN <<n>> ELSE Append(Bin(n \div 2), n % 2)

\* int(s, base=2) of a non-empty digit string; the empty string is a ValueError
RECURSIVE Int2(_)
Int2(s) == IF s = << >> THEN 0 ELSE 2 * Int2(SubSeq(s, 1, Len(s) - 1)) + s[Len(s)]

\* data.find(bytes([b]), from): lowest offset >= from holding b, -1 if none
Find(s, b, from) ==
    LET hits == {i \in from..(Len(s) - 1) : s[i + 1] = b}
    IN  IF hits = {} THEN -1
        ELSE CHOOSE i \in hits : \A j \in hits : i <= j

RECURSIVE Concat(_)
Concat(ss) == IF ss = << >> THEN << >> ELSE Head(ss) \o Concat(Tail(ss))

Raise(e) == [err |-> e, val |-> << >>]
Return(v) == [err |-> "none", val |-> v]

---------------------------------------------------------------------------
(* The field extractors *)

ImageSeparator == 44

extract_header(d) ==
    LET header == Slice(d, 0, 6)
    IN  IF \E i \in 1..Len(header) : header[i] >= 128
        THEN Raise("UnicodeDecodeError")
        ELSE Return(header)

\* <<width, height, gc_fl, cr, sort_fl, gc_size, bcolour_i, px_ratio>>
extract_screen_descriptor(d) ==
    LET width == FromLittle(Slice(d, 6, 8))
        height == FromLittle(Slice(d, 8, 10))
    IN  IF ~InRange(d, 11) \/ ~InRange(d, 12) \/ ~InRange(d, 10)
        THEN Raise("IndexError")
        ELSE LET packed_field == Bin(At(d, 10))
                 n == Len(packed_field)
             IN  IF n < 2 THEN Raise("ValueError")        \* int("", base=2) for cr
                 ELSE IF n < 5 THEN Raise("IndexError")   \* packed_field[4]
                 ELSE IF n < 6 THEN Raise("ValueError")   \* int("", base=2) for gc_size
                 ELSE Return(<<width, height,
                               packed_field[1],
                               Int2(Slice(packed_field, 1, 4)),
                               packed_field[5],
                               Int2(Slice(packed_field, 5, 8)),
                               At(d, 11), At(d, 12)>>)

\* the triples of data[13 : 13 + table_size], the last one cut short with the buffer
Triples(table_bytes) ==
    [k \in 1..((Len(table_bytes) + 2) \div 3) |->
        Slice(table_bytes, 3 * (k - 1), 3 * (k - 1) + 3)]

extract_global_colour_table(d) ==
    LET sd == extract_screen_descriptor(d)
    IN  IF sd.err # "none" THEN Raise(sd.err)
        ELSE LET table_size == 3 * Pow2(sd.val[6] + 1)
                 table_bytes == Slice(d, 13, 13 + table_size)
             IN  Return(Triples(table_bytes))

\* data.find(b"\x2c", search_start): -1 when the separator is absent
FindSeparator(d, gc_size) ==
    Find(d, ImageSeparator, 13 + 3 * Pow2(gc_size + 1))

\* <<left, top, width, height, lc_fl, itl_fl, sort_fl, res, lc_size>>
extract_image_descriptor(d) ==
    LET sd == extract_screen_descriptor(d)
    IN  IF sd.err # "none" THEN Raise(sd.err)
        ELSE
        LET st == FindSeparator(d, sd.val[6])
            left == FromLittle(Slice(d, st + 1, st + 3))
            top == FromLittle(Slice(d, st + 3, st + 5))
            width == FromLittle(Slice(d, st + 5, st + 7))
            height == FromLittle(Slice(d, st + 7, st + 9))
        IN  IF ~InRange(d, st + 9) THEN Raise("IndexError")
            ELSE LET packed_field == Bin(At(d, st + 9))
                     n == Len(packed_field)
                 IN  IF packed_field = <<0>>
                     THEN Return(<<left, top, width, height, 0, 0, 0, 0, 0>>)
                     ELSE IF n < 3 THEN Raise("IndexError")   \* packed_field[1], [2]
                     ELSE IF n < 5 THEN Raise("ValueError")   \* int("", base=2) for lc_size
                     ELSE Return(<<left, top, width, height,
                                   packed_field[1], packed_field[2], packed_field[3],
                                   Int2(Slice(packed_field, 2, 4)),
                                   Int2(Slice(packed_field, 4, 7))>>)

---------------------------------------------------------------------------
(* extract_image: the locals that are views of the state *)

image_bytes == Slice(data, start, Len(data))

\* ByteBits without the reversal of line 147: most significant bit first
ByteBitsMsbFirst(byte) ==
    LET long_byte == Bin(byte)
    IN  [i \in 1..(8 - Len(long_byte)) |-> 0] \o long_byte

\* ByteBits without the padding of lines 144-145
ByteBitsUnpadded(byte) == Reverse(Bin(byte))

\* one payload byte as 8 bits, least significant bit first
ByteBits(byte) ==
    LET long_byte == Bin(byte)
        padded == [i \in 1..(8 - Len(long_byte)) |-> 0] \o long_byte
    IN  Reverse(padded)

\* the bits of one sub-block, byte after byte
BlockBits(sub_block) == Concat([i \in 1..Len(sub_block) |-> ByteBits(sub_block[i])])

\* the bits of the next read and the code they spell, first bit least significant
Chunk == Slice(data_stream, start_b, start_b + code_size)
CodeOf(chunk) == Int2(Reverse(chunk))
NextStartStuck(cursor, width) == cursor
NextStart(cursor, width) == cursor + width

\* code table entries: a list of colours, or one of the two strings "CC" and
\* "EOI"; the elements of a string are its characters, written <<code point>>
ListEntry(colours) == [tag |-> "list", val |-> colours]
StrEntry(s) ==
    [tag |-> s,
     val |-> IF s = "CC" THEN <<<<67>>, <<67>>>> ELSE <<<<69>>, <<79>>, <<73>>>>]

\* FreshTable without the extend of line 184
FreshTableNoSentinels(map) == [i \in 1..Len(map) |-> ListEntry(<<map[i]>>)]

\* [[c] for c in gc_map] + ["CC", "EOI"]
FreshTable(map) ==
    [i \in 1..Len(map) |-> ListEntry(<<map[i]>>)] \o <<StrEntry("CC"), StrEntry("EOI")>>

\* TallyCount without the reset of line 218
TallyCountNoReset(cnt, size) == cnt + 1

\* TallySize with a width that grows by two
TallySizeSkip(cnt, size) == IF cnt + 1 = Pow2(size - 1) THEN size + 2 ELSE size

\* TallySize with a width that grows one code late
TallySizeLate(cnt, size) == IF cnt = Pow2(size - 1) THEN size + 1 ELSE size

\* lines 213-219, given the count and the code size the branch left
TallyCount(cnt, size) == IF cnt + 1 = Pow2(size - 1) THEN 0 ELSE cnt + 1
TallySize(cnt, size) == IF cnt + 1 = Pow2(size - 1) THEN size + 1 ELSE size

\* NewEntryErr when str + list concatenates instead of raising
NewEntryErrNoType(table, prev) ==
    IF prev < 0 THEN "UnboundLocalError"
    ELSE IF ~InRange(table, prev) THEN "IndexError"
    ELSE "none"

\* code_table[previous_code] + [b]: the exception it raises, "none" if it builds the list
NewEntryErr(table, prev) ==
    IF prev < 0 THEN "UnboundLocalError"
    ELSE IF ~InRange(table, prev) THEN "IndexError"
    ELSE IF At(table, prev).tag # "list" THEN "TypeError"
    ELSE "none"
NewEntry(table, prev, b) == ListEntry(Append(At(table, prev).val, b))

\* the reshape loop of lines 223-230
RECURSIVE ReshapeFrom(_, _, _, _, _)
ReshapeFrom(colours, width, index, row, image) ==
    IF index > Len(colours) THEN image
    ELSE LET row2 == Append(row, colours[index])
         IN  IF index % width = 0
             THEN ReshapeFrom(colours, width, index + 1, << >>, Append(image, row2))
             ELSE ReshapeFrom(colours, width, index + 1, row2, image)
Reshape(colours, width) == ReshapeFrom(colours, width, 1, << >>, << >>)

---------------------------------------------------------------------------
(* The input buffers *)

MaxPayload == 2     \* payload bytes of the generated sub-block chains
MaxWidth == 2       \* declared image widths 1..MaxWidth

Signature == <<71, 73, 70, 56, 57, 97>>     \* "GIF89a"

\* the i-th colour of the generated colour tables, i from 0
Colour(i) == <<10 * i + 1, 10 * i + 2, 10 * i + 3>>

\* the payload of the minimal image: Clear, 0, 1, 2, 3, EOI at minimum code size 2
MinimalPayload == <<68, 52, 5>>

\* at minimum code size 1 and 2 colours: Clear, 0, 6 (two past the table length),
\* then 5, the table length at that read
BeyondThenUnknownPayload == <<226, 2>>

PayloadBytes == {0, 7, 13, 36, 42, 62, 66, 92}

RECURSIVE SeqsUpTo(_, _)
SeqsUpTo(S, n) ==
    IF n = 0 THEN {<< >>}
    ELSE LET shorter == SeqsUpTo(S, n - 1)
         IN  shorter \cup {Append(q, x) : q \in {r \in shorter : Len(r) = n - 1}, x \in S}

Payloads == SeqsUpTo(PayloadBytes, MaxPayload) \cup {MinimalPayload, BeyondThenUnknownPayload}

\* sub-block chains around a payload: one block, one block per byte, a missing
\* terminator, a length byte that declares one byte more than the buffer holds,
\* bytes after the terminator
Chains(p) ==
    { <<Len(p)>> \o p \o <<0>>,
      Concat([i \in 1..Len(p) |-> <<1, p[i]>>]) \o <<0>>,
      <<Len(p)>> \o p,
      <<Len(p) + 1>> \o p,
      <<Len(p)>> \o p \o <<0, 1, 6>> }

\* header, screen descriptor, colour table of ncol colours, image descriptor,
\* minimum code size, sub-block chain
Buffer(height, packed, ncol, sep, width, ipacked, mcs, chain) ==
    Signature \o <<2, 0, height, 0, packed, 0, 0>>
    \o Concat([i \in 1..ncol |-> Colour(i - 1)])
    \o <<sep, 0, 0, 0, 0, width, 0, 2, 0, ipacked, mcs>> \o chain

ImageInputs ==
    { Buffer(2, 127 + e, Pow2(e), ImageSeparator, w, 0, m, c) :
        e \in 1..2, w \in 0..MaxWidth, m \in 0..2,
        c \in UNION {Chains(p) : p \in Payloads} }

\* a buffer without separator byte whose byte 10 (the packed screen byte, 32) is
\* followed by 32 bytes and a zero byte; b is byte 11
NoSeparatorBuffer(b) ==
    Signature \o <<2, 0, 0, 1, 32, b>> \o [i \in 1..31 |-> 0] \o <<0>>

Prefixes(b) == {SubSeq(b, 1, k) : k \in 0..Len(b)}

ParseInputs ==
    UNION { Prefixes(Buffer(h, 129, 4, sep, 2, ip, 2, <<3>> \o MinimalPayload \o <<0>>)) :
              h \in {0, 2, 16}, sep \in {ImageSeparator, 33}, ip \in {0, 2, 9, 64} }
    \cup { Buffer(2, pk, 2, ImageSeparator, 2, 0, 1, <<1, 14, 0>>) :
              pk \in {0, 1, 2, 15, 16, 31, 32, 63, 64, 127, 128, 255} }
    \cup { <<200>> \o Tail(Signature), <<71, 73, 70, 56, 57, 225>> \o <<2, 0, 2, 0, 128, 0, 0>> }
    \cup { NoSeparatorBuffer(b) : b \in {14, 50, 66} }

Inputs == ImageInputs \cup ParseInputs

---------------------------------------------------------------------------
(* The calls *)

Init ==
    /\ data \in Inputs
    /\ pc = "idle"
    /\ fn = "none"
    /\ err = "none"
    /\ ret = << >>
    /\ start = 0
    /\ min_code_size = 0
    /\ code_size = 0
    /\ sub_block_start = 0
    /\ sub_block_length = 0
    /\ data_stream = << >>
    /\ start_b = 0
    /\ count = 0
    /\ gc_map = << >>
    /\ cc_index = 0
    /\ image_data = << >>
    /\ code_table = << >>
    /\ first = FALSE
    /\ previous_code = -1
    /\ current_code = -1
    /\ reversed_order = << >>

imageVars == <<start, min_code_size, code_size, sub_block_start, sub_block_length,
               data_stream, start_b, count, gc_map, cc_index, image_data,
               code_table, first, previous_code, current_code, reversed_order>>

\* a call of one of the pure extractors: it returns or raises in one step
Finish(name, res) ==
    /\ fn' = name
    /\ pc' = IF res.err = "none" THEN "returned" ELSE "raised"
    /\ err' = res.err
    /\ ret' = res.val
    /\ UNCHANGED <<data, imageVars>>

CallHeader == pc = "idle" /\ Finish("extract_header", extract_header(data))

CallScreenDescriptor ==
    pc = "idle" /\ Finish("extract_screen_descriptor", extract_screen_descriptor(data))

CallGlobalColourTable ==
    pc = "idle" /\ Finish("extract_global_colour_table", extract_global_colour_table(data))

CallImageDescriptor ==
    pc = "idle" /\ Finish("extract_image_descriptor", extract_image_descriptor(data))

---------------------------------------------------------------------------
(* extract_image *)

\* lines 118-135: locate the image data, read the minimum code size and the
\* first length byte
ImageLocate ==
    /\ pc = "idle"
    /\ fn' = "extract_image"
    /\ UNCHANGED <<data, ret, start_b, count, gc_map, cc_index, image_data, code_table,
                   first, previous_code, current_code, reversed_order>>
    /\ LET sd == extract_screen_descriptor(data)
           st == FindSeparator(data, sd.val[6]) + 10
           bytes == Slice(data, st, Len(data))
       IN  IF sd.err # "none"
           THEN /\ pc' = "raised" /\ err' = sd.err
                /\ UNCHANGED <<start, min_code_size, code_size, sub_block_start,
                               sub_block_length, data_stream>>
           ELSE /\ start' = st
                /\ IF ~InRange(bytes, 0)
                   THEN /\ pc' = "raised" /\ err' = "IndexError"
                        /\ UNCHANGED <<min_code_size, code_size, sub_block_start,
                                       sub_block_length, data_stream>>
                   ELSE /\ min_code_size' = At(bytes, 0)
                        /\ code_size' = At(bytes, 0) + 1
                        /\ sub_block_start' = 1
                        /\ data_stream' = << >>
                        /\ IF ~InRange(bytes, 1)
                           THEN /\ pc' = "raised" /\ err' = "IndexError"
                                /\ UNCHANGED sub_block_length
                           ELSE /\ pc' = "assemble" /\ err' = "none"
                                /\ sub_block_length' = At(bytes, 1)

\* lines 137-153: one turn of the sub-block loop
AssembleBlock ==
    /\ pc = "assemble"
    /\ sub_block_length # 0
    /\ LET sub_block == Slice(image_bytes, sub_block_start + 1,
                              sub_block_start + sub_block_length + 1)
           next == sub_block_start + sub_block_length + 1
       IN  /\ data_stream' = data_stream \o BlockBits(sub_block)
           /\ sub_block_start' = next
           /\ IF InRange(image_bytes, next)
              THEN /\ sub_block_length' = At(image_bytes, next)
                   /\ UNCHANGED <<pc, err>>
              ELSE /\ pc' = "raised" /\ err' = "IndexError"
                   /\ UNCHANGED sub_block_length
    /\ UNCHANGED <<data, fn, ret, start, min_code_size, code_size, start_b, count, gc_map,
                   cc_index, image_data, code_table, first, previous_code, current_code,
                   reversed_order>>

\* lines 154-172: the loop ends at a zero length byte; set up the decoder
AssembleEnd ==
    /\ pc = "assemble"
    /\ sub_block_length = 0
    /\ pc' = "decode"
    /\ start_b' = 0
    /\ count' = 0
    /\ gc_map' = extract_global_colour_table(data).val
    /\ cc_index' = Len(extract_global_colour_table(data).val)
    /\ image_data' = << >>
    /\ UNCHANGED <<data, fn, err, ret, start, min_code_size, code_size, sub_block_start,
                   sub_block_length, data_stream, code_table, first, previous_code,
                   current_code, reversed_order>>

\* lines 175-177 of a turn of the decode loop whose read succeeds
Read ==
    /\ pc = "decode"
    /\ Chunk # << >>
    /\ reversed_order' = Chunk
    /\ current_code' = CodeOf(Chunk)
    /\ start_b' = NextStart(start_b, code_size)

\* lines 213-219
Tally(cnt, size) ==
    /\ count' = TallyCount(cnt, size)
    /\ code_size' = TallySize(cnt, size)
    /\ previous_code' = CodeOf(Chunk)

assembled == <<data, fn, ret, start, min_code_size, sub_block_start, sub_block_length,
               data_stream, gc_map, cc_index>>

\* line 176 on an exhausted stream: int("", base=2)
DecodeExhausted ==
    /\ pc = "decode"
    /\ Chunk = << >>
    /\ reversed_order' = << >>
    /\ pc' = "raised" /\ err' = "ValueError"
    /\ UNCHANGED <<assembled, code_size, start_b, count, image_data, code_table, first,
                   previous_code, current_code>>

\* lines 180-188, 213-219
DecodeClear ==
    /\ Read
    /\ CodeOf(Chunk) = cc_index
    /\ code_table' = FreshTable(gc_map)
    /\ first' = TRUE
    /\ Tally(0, min_code_size + 1)
    /\ UNCHANGED <<assembled, pc, err, image_data>>

\* lines 190-191
DecodeEOI ==
    /\ Read
    /\ CodeOf(Chunk) = cc_index + 1
    /\ pc' = "reshape"
    /\ UNCHANGED <<assembled, err, code_size, count, image_data, code_table, first,
                   previous_code>>

\* line 193 before any Clear code: code_table is not bound
DecodeUnbound ==
    /\ Read
    /\ CodeOf(Chunk) \notin {cc_index, cc_index + 1}
    /\ code_table = << >>
    /\ pc' = "raised" /\ err' = "UnboundLocalError"
    /\ UNCHANGED <<assembled, code_size, count, image_data, code_table, first,
                   previous_code>>

\* lines 193-204, 213-219
DecodeKnown ==
    /\ Read
    /\ CodeOf(Chunk) \notin {cc_index, cc_index + 1}
    /\ code_table # << >>
    /\ CodeOf(Chunk) < Len(code_table)
    /\ LET current_color == At(code_table, CodeOf(Chunk)).val
           e == NewEntryErr(code_table, previous_code)
       IN  /\ image_data' = image_data \o current_color
           /\ IF first
              THEN /\ first' = FALSE
                   /\ Tally(count, code_size)
                   /\ UNCHANGED <<pc, err, code_table>>
              ELSE IF e # "none"
              THEN /\ pc' = "raised" /\ err' = e
                   /\ UNCHANGED <<code_size, count, code_table, first, previous_code>>
              ELSE /\ code_table' = Append(code_table,
                                       NewEntry(code_table, previous_code, current_color[1]))
                   /\ Tally(count, code_size)
                   /\ UNCHANGED <<pc, err, first>>
    /\ UNCHANGED assembled

\* lines 206-211, 213-219
DecodeUnknown ==
    /\ Read
    /\ CodeOf(Chunk) \notin {cc_index, cc_index + 1}
    /\ code_table # << >>
    /\ CodeOf(Chunk) >= Len(code_table)
    /\ LET e == NewEntryErr(code_table, previous_code)
           b == At(code_table, previous_code).val[1]
           new == NewEntry(code_table, previous_code, b)
       IN  IF e # "none"
           THEN /\ pc' = "raised" /\ err' = e
                /\ UNCHANGED <<code_size, count, image_data, code_table, previous_code>>
           ELSE /\ image_data' = image_data \o new.val
                /\ code_table' = Append(code_table, new)
                /\ Tally(count, code_size)
                /\ UNCHANGED <<pc, err>>
    /\ UNCHANGED <<assembled, first>>

\* lines 221-231
BuildGrid ==
    /\ pc = "reshape"
    /\ LET idesc == extract_image_descriptor(data)
           width == idesc.val[3]
       IN  IF idesc.err # "none"
           THEN /\ pc' = "raised" /\ err' = idesc.err /\ UNCHANGED ret
           ELSE IF image_data # << >> /\ width = 0
           THEN /\ pc' = "raised" /\ err' = "ZeroDivisionError" /\ UNCHANGED ret
           ELSE /\ pc' = "returned" /\ ret' = Reshape(image_data, width) /\ UNCHANGED err
    /\ UNCHANGED <<data, fn, imageVars>>

Next ==
    \/ CallHeader
    \/ CallScreenDescriptor
    \/ CallGlobalColourTable
    \/ CallImageDescriptor
    \/ ImageLocate
    \/ AssembleBlock
    \/ AssembleEnd
    \/ DecodeExhausted
    \/ DecodeClear
    \/ DecodeEOI
    \/ DecodeUnbound
    \/ DecodeKnown
    \/ DecodeUnknown
    \/ BuildGrid

Spec == Init /\ [][Next]_vars

\* one turn of the decode loop, whatever its branch
DecodeStep ==
    \/ DecodeExhausted
    \/ DecodeClear
    \/ DecodeEOI
    \/ DecodeUnbound
    \/ DecodeKnown
    \/ DecodeUnknown

\* the call is synchronous and single-threaded: a loop that can take a turn takes it
FairSpec == Spec /\ WF_vars(DecodeStep)

---------------------------------------------------------------------------
(* Properties *)

InImage == fn = "extract_image"
Terminated == pc \in {"returned", "raised"}

\* the colour table the buffer holds and the image descriptor fields
TableOf(d) == extract_global_colour_table(d).val
WidthOf(d) == extract_image_descriptor(d).val[3]
SeparatorOf(d) == FindSeparator(d, extract_screen_descriptor(d).val[6])

\* a buffer with a 4-entry colour table, image width 2, minimum code size 2 and the
\* single sub-block Clear, 0, 1, 2, 3, EOI followed by the terminator
MinimalImage(d) ==
    /\ extract_screen_descriptor(d).err = "none"
    /\ Len(TableOf(d)) = 4
    /\ \A k \in 1..4 : Len(TableOf(d)[k]) = 3
    /\ SeparatorOf(d) >= 0
    /\ extract_image_descriptor(d).err = "none"
    /\ WidthOf(d) = 2
    /\ Slice(d, SeparatorOf(d) + 10, SeparatorOf(d) + 16) = <<2, 3>> \o MinimalPayload \o <<0>>

\* a cell that is the plain colour index i: one component, the index
IndexCell(i) == <<i>>

\* C1 as stated: the minimal image decodes to the grid of colour indices
\* [[0,1],[2,3]]
C1_IndexGrid ==
    (InImage /\ MinimalImage(data)) =>
        /\ pc # "raised"
        /\ pc = "returned" =>
              ret = << <<IndexCell(0), IndexCell(1)>>, <<IndexCell(2), IndexCell(3)>> >>

\* C1 amended: the minimal image decodes to two rows of two cells, the cells being
\* the colour-table entries (RGB triples) 0, 1, 2, 3 in emission order
C1_TripleGrid ==
    (InImage /\ MinimalImage(data)) =>
        /\ pc # "raised"
        /\ pc = "returned" =>
              ret = << <<TableOf(data)[1], TableOf(data)[2]>>,
                       <<TableOf(data)[3], TableOf(data)[4]>> >>

C1_Witness == InImage /\ MinimalImage(data) /\ pc = "returned"

\* the decode loop is about to read the code that follows a Clear code
AfterClear == InImage /\ pc = "decode" /\ current_code = cc_index

\* C2: when the loop is about to read the code after a Clear code, the code
\* table has (number of colour table entries + 2) entries and the code width is
\* min_code_size + 1
C2_AfterClear ==
    AfterClear =>
        /\ Len(code_table) = Len(TableOf(data)) + 2
        /\ code_size = min_code_size + 1

\* a Clear code read in mid-stream, after the table and the width have grown
C2_Witness ==
    /\ AfterClear
    /\ Len(image_data) >= 2
    /\ start_b > 2 * (min_code_size + 1) + 1

\* C3: every element of the output is a colour of the global colour table, that
\* is, the entry of some index in [0, table size)
C3_EmittedInTable ==
    \A i \in 1..Len(image_data) :
        \E k \in 1..Len(TableOf(data)) : image_data[i] = TableOf(data)[k]

\* colours emitted by a code that was not in the table when read
C3_Witness ==
    /\ InImage /\ pc = "decode"
    /\ current_code >= Len(code_table) - 1
    /\ current_code > cc_index + 1
    /\ Len(image_data) >= 3

\* the loop is about to read a code that is not Clear, not EOI and larger than
\* the table length
ReadsBeyondTable ==
    /\ pc = "decode" /\ Chunk # << >> /\ code_table # << >>
    /\ CodeOf(Chunk) \notin {cc_index, cc_index + 1}
    /\ CodeOf(Chunk) > Len(code_table)

\* C4: a code larger than the table length ends the decoding in an error,
\* with nothing appended to the output or to the table
C4_CorruptRejected ==
    [][ReadsBeyondTable =>
          pc' = "raised" /\ image_data' = image_data /\ code_table' = code_table]_vars

\* C5: a read with fewer than code_size unread bits ends the decoding in an
\* error; no code is formed and nothing is emitted
C5_ShortReadFails ==
    [][(pc = "decode" /\ Len(data_stream) - start_b < code_size) =>
          pc' = "raised" /\ current_code' = current_code /\ image_data' = image_data]_vars

\* C6: the decode loop ends, in the EOI code or in an error: every turn that
\* stays in the loop started inside the stream and moved the cursor forward
C6_LoopTerminates ==
    /\ (pc = "decode") ~> (pc \in {"reshape", "raised"})
    /\ [][(pc = "decode" /\ pc' = "decode") =>
            start_b < Len(data_stream) /\ start_b' > start_b]_vars

\* a stream without EOI code, read to its end
C6_Witness ==
    /\ InImage /\ pc = "raised" /\ err = "ValueError"
    /\ code_table # << >>
    /\ start_b >= Len(data_stream)
    /\ Len(image_data) >= 2

\* C7: a length byte that declares more bytes than the buffer holds ends the
\* extraction in an error, and no part of that sub-block enters the bit stream
C7_TruncatedBlockRejected ==
    [][(pc = "assemble" /\ sub_block_length # 0
          /\ sub_block_length > Len(image_bytes) - sub_block_start - 1) =>
          pc' = "raised" /\ data_stream' = data_stream]_vars

\* C8: the grid has rows of the declared width w > 0 only, and is returned only
\* if w divides the number n of decoded colours; it then holds all n colours in
\* order
C8_GridComplete ==
    (InImage /\ pc = "returned" /\ WidthOf(data) > 0) =>
        /\ Len(image_data) % WidthOf(data) = 0
        /\ \A r \in 1..Len(ret) : Len(ret[r]) = WidthOf(data)
        /\ Len(ret) * WidthOf(data) = Len(image_data)
        /\ Concat(ret) = image_data

\* C9: without separator byte after the colour table, extract_image_descriptor
\* and extract_image end in an error and parse nothing further
C9_NoSeparatorFails ==
    (/\ fn \in {"extract_image_descriptor", "extract_image"}
     /\ extract_screen_descriptor(data).err = "none"
     /\ SeparatorOf(data) = -1) => pc = "raised"

\* C10: for a buffer of fewer than 13 bytes extract_header and
\* extract_screen_descriptor end in an error and return nothing
C10_ShortBufferFails ==
    (fn \in {"extract_header", "extract_screen_descriptor"} /\ Len(data) < 13) =>
        pc = "raised"

\* the table-size exponent the screen descriptor of d holds
ExponentOf(d) == extract_screen_descriptor(d).val[6]

\* C11: extract_global_colour_table returns exactly 2^(e+1) entries, entry i the
\* three bytes at offset 13 + 3*i, or ends in an error when the buffer holds
\* fewer than 13 + 3*2^(e+1) bytes
C11_TableComplete ==
    (fn = "extract_global_colour_table" /\ extract_screen_descriptor(data).err = "none") =>
        IF Len(data) < 13 + 3 * Pow2(ExponentOf(data) + 1)
        THEN pc = "raised"
        ELSE /\ pc = "returned"
             /\ Len(ret) = Pow2(ExponentOf(data) + 1)
             /\ \A i \in 0..(Len(ret) - 1) :
                    /\ Len(At(ret, i)) = 3
                    /\ At(ret, i) = Slice(data, 13 + 3 * i, 13 + 3 * i + 3)

\* a turn of the decode loop that reads a code and stays in the loop
LoopTurn == pc = "decode" /\ pc' = "decode"

\* C12: from one code read to the next the code width stays or grows by one;
\* only a Clear code sets it back, to min_code_size + 1
C12_WidthMonotone ==
    [][LoopTurn =>
          IF CodeOf(Chunk) = cc_index
          THEN code_size' = min_code_size + 1
          ELSE code_size' \in {code_size, code_size + 1}]_vars

\* the width has grown since the last Clear code
C12_Witness ==
    /\ InImage /\ pc = "decode"
    /\ code_table # << >>
    /\ current_code # cc_index
    /\ code_size = min_code_size + 2

\* C13 as stated: the Clear code is not counted, the counter is 0 when the code
\* after a Clear is read
C13_ClearNotCounted == AfterClear => count = 0

\* C13 amended: lines 213-219 run after the Clear code too, so the counter is 1
\* when the code after a Clear is read; after any other code the counter is
\* incremented, and the width is incremented and the counter set to 0 exactly
\* when the incremented counter is 2^(code_size - 1); the width first grows
\* after 2^min_code_size - 1 colour codes, when the table has
\* (colour table size + 2^min_code_size) entries
C13_ClearCounted ==
    [][LoopTurn =>
          /\ CodeOf(Chunk) = cc_index => count' = 1
          /\ CodeOf(Chunk) # cc_index =>
                IF count + 1 = Pow2(code_size - 1)
                THEN count' = 0 /\ code_size' = code_size + 1
                ELSE count' = count + 1 /\ code_size' = code_size
          /\ (code_size = min_code_size + 1 /\ code_size' = min_code_size + 2) =>
                Len(code_table') = Len(gc_map) + Pow2(min_code_size)]_vars

\* the first growth of the width after a Clear code
C13_Witness ==
    /\ InImage /\ pc = "decode"
    /\ code_table # << >>
    /\ count = 0
    /\ code_size = min_code_size + 2
    /\ Len(code_table) = Len(gc_map) + Pow2(min_code_size)

\* the loop is about to read a code that is neither Clear nor EOI, with the
\* code table bound
ReadsColourCode ==
    /\ pc = "decode" /\ Chunk # << >> /\ code_table # << >>
    /\ CodeOf(Chunk) \notin {cc_index, cc_index + 1}

\* C14: a known code c appends table[c] to the output; as first code since the
\* last Clear it leaves the table unchanged and clears the flag, otherwise it
\* appends the one entry table[previous code] + first colour of table[c]
C14_KnownCode ==
    [][(ReadsColourCode /\ CodeOf(Chunk) < Len(code_table)) =>
          /\ image_data' = image_data \o At(code_table, CodeOf(Chunk)).val
          /\ IF first
             THEN code_table' = code_table /\ first' = FALSE
             ELSE /\ InRange(code_table, previous_code)
                  /\ code_table' =
                        Append(code_table,
                               ListEntry(Append(At(code_table, previous_code).val,
                                                At(code_table, CodeOf(Chunk)).val[1])))]_vars

\* C15: a code equal to the table length, read after a colour code since the
\* last Clear, appends S = table[previous code] + first colour of
\* table[previous code] to the output and as one new table entry
C15_UnknownCode ==
    [][(ReadsColourCode /\ CodeOf(Chunk) = Len(code_table) /\ ~first) =>
          /\ InRange(code_table, previous_code)
          /\ LET prev == At(code_table, previous_code).val
                 S == Append(prev, prev[1])
             IN  /\ image_data' = image_data \o S
                 /\ Len(code_table') = Len(code_table) + 1
                 /\ At(code_table', CodeOf(Chunk)) = ListEntry(S)
                 /\ \A i \in 1..Len(code_table) : code_table'[i] = code_table[i]]_vars

\* the value of the bits b, the first one least significant
RECURSIVE LsbValue(_)
LsbValue(b) == IF b = << >> THEN 0 ELSE b[1] + 2 * LsbValue(Tail(b))

\* C16: every read takes exactly code_size bits at the cursor, the code is their
\* value with the first bit least significant, and the cursor moves on by
\* code_size
C16_ReadWidth ==
    [][(pc = "decode" /\ Chunk # << >>) =>
          /\ Len(reversed_order') = code_size
          /\ reversed_order' = Slice(data_stream, start_b, start_b + code_size)
          /\ current_code' = LsbValue(reversed_order')
          /\ start_b' = start_b + code_size]_vars

\* the payload bytes of the chain of sub-blocks that starts at offset pos of b,
\* <<-1>> if the chain is not well formed: a length byte or payload byte is
\* missing before the zero length byte
RECURSIVE ChainPayload(_, _)
ChainPayload(b, pos) ==
    IF ~InRange(b, pos) THEN <<-1>>
    ELSE IF At(b, pos) = 0 THEN << >>
    ELSE IF pos + At(b, pos) >= Len(b) THEN <<-1>>
    ELSE LET rest == ChainPayload(b, pos + At(b, pos) + 1)
         IN  IF rest = <<-1>> THEN <<-1>>
             ELSE Slice(b, pos + 1, pos + 1 + At(b, pos)) \o rest

\* the payload of the chain that follows the minimum code size byte of d
PayloadOf(d) ==
    IF extract_screen_descriptor(d).err # "none" THEN <<-1>>
    ELSE ChainPayload(d, SeparatorOf(d) + 11)

\* extract_image has left the sub-block loop
Assembled ==
    /\ InImage
    /\ \/ pc \in {"decode", "reshape", "returned", "raised"}
       \/ pc = "assemble" /\ sub_block_length = 0

\* C17: for a well-formed chain the bit stream has 8 bits per payload byte, bit
\* 8k + j being bit j (from the least significant) of payload byte k; length
\* bytes and the bytes after the zero length byte give no bits
C17_BitStream ==
    (Assembled /\ PayloadOf(data) # <<-1>>) =>
        /\ ~(pc = "raised" /\ err = "IndexError" /\ current_code = -1)
        /\ Len(data_stream) = 8 * Len(PayloadOf(data))
        /\ \A k \in 0..(Len(PayloadOf(data)) - 1) : \A j \in 0..7 :
              At(data_stream, 8 * k + j) = (At(PayloadOf(data), k) \div Pow2(j)) % 2

\* a well-formed chain of two sub-blocks of one byte each has been assembled
C17_Witness ==
    /\ InImage /\ pc = "decode"
    /\ SeparatorOf(data) # -1
    /\ PayloadOf(data) # <<-1>>
    /\ At(data, SeparatorOf(data) + 11) = 1
    /\ Len(PayloadOf(data)) = 2
    /\ Len(data_stream) = 16

\* the packed byte at offset 10
PackedOf(d) == At(d, 10)

\* C18: for every packed byte extract_screen_descriptor returns the flag as the
\* most significant bit, the resolution as the next three bits, the sort flag
\* as the next bit and the exponent as the three least significant bits
C18_PackedFields ==
    (fn = "extract_screen_descriptor" /\ pc \in {"returned", "raised"} /\ Len(data) >= 13) =>
        /\ pc = "returned"
        /\ ret[3] = PackedOf(data) \div 128
        /\ ret[4] = (PackedOf(data) \div 16) % 8
        /\ ret[5] = (PackedOf(data) \div 8) % 2
        /\ ret[6] = PackedOf(data) % 8

\* C19: whenever the decode loop is about to process a colour code the table
\* has been initialised, and when the branch uses table[previous code] that
\* index is in the table and refers to a colour sequence
C19_LookupsDefined ==
    (InImage /\ pc = "decode" /\ Chunk # << >>
        /\ CodeOf(Chunk) \notin {cc_index, cc_index + 1}) =>
        /\ code_table # << >>
        /\ (CodeOf(Chunk) >= Len(code_table) \/ ~first) =>
              /\ InRange(code_table, previous_code)
              /\ At(code_table, previous_code).tag = "list"

\* the table has 2^min_code_size colours, min_code_size >= 2, and a Clear code
\* has been read
FullTable ==
    /\ InImage /\ pc = "decode"
    /\ code_table # << >>
    /\ min_code_size >= 2
    /\ Len(gc_map) = Pow2(min_code_size)

\* state part of C20: with a full table, when the loop is about to read a code
\* the table length is strictly less than 2^code_size
C20_TableFitsWidth == FullTable => Len(code_table) < Pow2(code_size)

\* step part of C20: with a full table, a turn of the loop on a code other than
\* Clear increments code_size exactly when the table length becomes
\* 2^code_size
C20_GrowsWhenFull ==
    [][(FullTable /\ LoopTurn /\ CodeOf(Chunk) # cc_index) =>
          /\ code_size' \in {code_size, code_size + 1}
          /\ (code_size' = code_size + 1) <=> (Len(code_table') = Pow2(code_size))]_vars

\* C20: with a full global colour table the code table always fits the code
\* width when a code is about to be read, and the width is incremented at
\* exactly the step at which the table length becomes 2^code_size
C20_WidthTracksTable == []C20_TableFitsWidth /\ C20_GrowsWhenFull

\* the width has grown: the table holds 2^(min_code_size + 1) entries
C20_Witness ==
    /\ FullTable
    /\ code_size = min_code_size + 2
    /\ Len(code_table) = Pow2(min_code_size + 1)

=============================================================================
